---- MODULE Spec2Model ----
(***************************************************************************)
(* Leave-One-Cluster-Out cross-validation splitter (class LocoCV of the    *)
(* notebook loco-ridge-steels.ipynb) together with the clusterer it wraps. *)
(*                                                                         *)
(* The clusterer is a black box with one capability, fit_predict(X).  Its  *)
(* configuration is random_state: None (unseeded, every fit may return any *)
(* label vector) or an integer seed (the fit is a function of X and the    *)
(* seed).  The feature matrix X is represented by its row count n; rows    *)
(* are indexed 0..n-1 as in the code.                                      *)
(*                                                                         *)
(* split(X, y) is a Python generator: creating it runs no code; the first  *)
(* request for a partition runs _iter_test_masks up to its first yield     *)
(* (fit, unique, the < 2 check, the first mask); every later request       *)
(* resumes the loop.                                                       *)
(***************************************************************************)
EXTENDS Integers, Sequences, FiniteSets

\* ------------------------------------------------------------- bounds
MaxRows == 3        \* X has 1..MaxRows rows
NumSeeds == 2       \* integer seeds 0..NumSeeds-1
MaxCalls == 2       \* split / get_n_splits calls made in one behaviour

\* The label values the clusterer draws from: opaque to the splitter, neither
\* zero-based nor contiguous.
Labels == {1, 3, 5}
Seeds == 0..(NumSeeds - 1)
None == -1
\* The target vector handed to split / get_n_splits (None or some vector).
Targets == {"None", "y"}

VARIABLES
    n,              \* row count of X
    random_state,   \* the clusterer's configuration: None or a seed
    lastFit,        \* outcome of the clusterer's most recent fit_predict
    dirty,          \* configuration changed since the most recent fit
    op,             \* the most recent call on the splitter
    pc,             \* position of the split generator
    labels,         \* _iter_test_masks local: labels
    clust_labels,   \* _iter_test_masks local: clust_labels
    pos,            \* number of loop iterations of _iter_test_masks begun
    yielded,        \* the partitions the caller has received from split
    err,            \* the exception the most recent call raised
    ret,            \* the value the most recent get_n_splits returned
    refit,          \* history: the call's fit repeated the previous fit under an unchanged seeded configuration
    prev,           \* history: summary of the call before the most recent
    self,           \* the splitter object's fields (self.clusterer)
    fits,           \* history: number of fit_predict invocations so far
    calls           \* history: number of split / get_n_splits calls so far

vars == <<n, random_state, lastFit, dirty, op, pc, labels, clust_labels, pos,
          yielded, err, ret, refit, prev, self, fits, calls>>

clustererVars == <<random_state, lastFit, dirty>>

\* ------------------------------------------------------------ helpers
Rows == 0..(n - 1)

NoLabels == [i \in {} |-> 0]
NoRet == -1

LabelVectors == [Rows -> Labels]

\* A fit either returns one label per row or raises.
FitOk(v) == [st |-> "ok", labels |-> v]
FitError == [st |-> "error", labels |-> NoLabels]
NoFit == [st |-> "none", labels |-> NoLabels]

AllFitResults == {FitOk(v) : v \in LabelVectors} \cup {FitError}

\* Variant: the fit ignores the configured seed (a fresh unseeded clusterer
\* is fitted instead of self.clusterer).
FitResultsUnseeded == AllFitResults

\* Variant: the label vector of an earlier fit is reused instead of fitting.
FitResultsCached == IF lastFit # NoFit THEN {lastFit} ELSE AllFitResults

\* What self.clusterer.fit_predict(X) may return in the current state.
FitResults ==
    IF random_state # None /\ ~dirty /\ lastFit # NoFit
    THEN {lastFit}
    ELSE AllFitResults

\* The fit about to run is determined by the previous one.
Repeats == random_state # None /\ ~dirty /\ lastFit # NoFit

RECURSIVE SortSet(_)
SortSet(S) ==
    IF S = {} THEN <<>>
    ELSE LET m == CHOOSE x \in S : \A z \in S : x <= z
         IN  <<m>> \o SortSet(S \ {m})

\* Variant: the distinct values in descending order.
RECURSIVE SortSetDescending(_)
SortSetDescending(S) ==
    IF S = {} THEN <<>>
    ELSE LET m == CHOOSE x \in S : \A z \in S : x >= z
         IN  <<m>> \o SortSetDescending(S \ {m})

UniqueDescending(v) == SortSetDescending({v[i] : i \in DOMAIN v})

\* Variant: the distinct values in the order of their first occurrence in v.
RECURSIVE SortByFirstRow(_, _)
SortByFirstRow(S, v) ==
    IF S = {} THEN <<>>
    ELSE LET r == CHOOSE i \in DOMAIN v :
                    /\ v[i] \in S
                    /\ \A k \in DOMAIN v : v[k] \in S => i <= k
         IN  <<v[r]>> \o SortByFirstRow(S \ {v[r]}, v)

UniqueFirstOccurrence(v) == SortByFirstRow({v[i] : i \in DOMAIN v}, v)

\* Variant: the loop runs over labels itself, one entry per row.
UniqueNoDedup(v) == [j \in 1..Cardinality(DOMAIN v) |-> v[j - 1]]

\* np.unique(labels): the distinct values, ascending.
Unique(v) == SortSet({v[i] : i \in DOMAIN v})

\* Variant: the check is off by one (< 1).
TooFewClustersOffByOne(cl) == Len(cl) < 1

\* Variant: the check demands three clusters (< 3).
TooFewClustersBelowThree(cl) == Len(cl) < 3

\* len(clust_labels) < 2
TooFewClusters(cl) == Len(cl) < 2

\* Variant: the mask is taken over labels[:-1], dropping the last row.
TestMaskDropLast(v, label) ==
    [i \in {k \in DOMAIN v : k + 1 \in DOMAIN v} |-> v[i] = label]

\* Variant: the mask is inverted (labels != label).
TestMaskInverted(v, label) == [i \in DOMAIN v |-> v[i] # label]

\* labels == label: a boolean mask over the rows.
TestMask(v, label) == [i \in DOMAIN v |-> v[i] = label]

\* BaseCrossValidator.split: indices[test_mask] and indices[logical_not(test_mask)].
TestIndex(mask) == {i \in DOMAIN mask : mask[i]}
TrainIndex(mask) == {i \in DOMAIN mask : ~mask[i]}
Partition(mask) == [train |-> TrainIndex(mask), test |-> TestIndex(mask)]

\* What the caller knows of the most recent call once a new one begins.
NoPrev == [op |-> "none", seq |-> <<>>, err |-> "none", ret |-> NoRet]
Summary == [op |-> op, seq |-> yielded, err |-> err, ret |-> ret]

Active == pc \in {"created", "running"}

\* Variant: the loop stops one cluster early.
HasNextSkipLast == pos + 1 < Len(clust_labels)

\* for label in clust_labels: another label is left to yield.
HasNext == pos < Len(clust_labels)

\* Variant: get_n_splits returns len(labels), the row count.
NSplitsOutcomeCountRows(r) ==
    IF r.st = "error"
    THEN [err |-> "FitError", ret |-> NoRet]
    ELSE [err |-> "none", ret |-> Cardinality(DOMAIN r.labels)]

\* Variant: get_n_splits makes the same < 2 check as split.
NSplitsOutcomeValidating(r) ==
    IF r.st = "error"
    THEN [err |-> "FitError", ret |-> NoRet]
    ELSE IF Len(Unique(r.labels)) < 2
         THEN [err |-> "ValueError", ret |-> NoRet]
         ELSE [err |-> "none", ret |-> Len(Unique(r.labels))]

\* What get_n_splits does with the outcome r of its fit: raise what the fit
\* raised, or return len(np.unique(labels)).
NSplitsOutcome(r) ==
    IF r.st = "error"
    THEN [err |-> "FitError", ret |-> NoRet]
    ELSE [err |-> "none", ret |-> Len(Unique(r.labels))]

\* Variant: after an insufficient-clusters outcome the fit is attempted once
\* more before giving up.
FitCallsWithRetry(r) ==
    IF r.st = "ok" /\ Len(Unique(r.labels)) < 2 THEN 2 ELSE 1

\* How many times fit_predict is invoked by one pass through the fit whose
\* outcome is r: the call is made once, outside any loop or handler.
FitCalls(r) == 1

\* Variant: a failure of fit_predict is caught and reported as the
\* insufficient-clusters error.
FitFailureConverted == "ValueError"

\* The exception the caller sees when fit_predict raises: that exception.
FitFailure == "FitError"

\* Variant: the splitter replaces its clusterer by a clone when called.
SelfAfterCallCloned == [clusterer |-> "clone"]

\* The splitter's fields after split or get_n_splits has run: no statement of
\* either method assigns to self.
SelfAfterCall == self

\* --------------------------------------------------------------- init
Init ==
    /\ n \in 1..MaxRows
    /\ random_state \in Seeds \cup {None}
    /\ lastFit = NoFit
    /\ dirty = FALSE
    /\ op = "none"
    /\ pc = "idle"
    /\ labels = NoLabels
    /\ clust_labels = <<>>
    /\ pos = 0
    /\ yielded = <<>>
    /\ err = "none"
    /\ ret = NoRet
    /\ refit = FALSE
    /\ prev = NoPrev
    /\ self = [clusterer |-> "kmeans"]
    /\ fits = 0
    /\ calls = 0

\* ------------------------------------------------------------ actions

\* The caller changes the clusterer's seed (kmeans.steps[-1][1].random_state = i).
SetRandomState(s) ==
    /\ random_state' = s
    /\ dirty' = (dirty \/ s # random_state)
    /\ UNCHANGED <<n, lastFit, op, pc, labels, clust_labels, pos, yielded,
                   err, ret, refit, prev, self, fits, calls>>

\* Variant: split is not a generator: the fit runs when split is called.
SplitEager(y) ==
    /\ ~Active
    /\ calls < MaxCalls
    /\ calls' = calls + 1
    /\ prev' = Summary
    /\ op' = "split"
    /\ pc' = "created"
    /\ \E r \in FitResults :
        /\ lastFit' = r
        /\ fits' = fits + FitCalls(r)
    /\ dirty' = FALSE
    /\ labels' = NoLabels
    /\ clust_labels' = <<>>
    /\ pos' = 0
    /\ yielded' = <<>>
    /\ err' = "none"
    /\ ret' = NoRet
    /\ refit' = FALSE
    /\ self' = SelfAfterCall
    /\ UNCHANGED <<n, random_state>>

\* Variant: the generator reads the target vector and fails without one.
SplitUsingTarget(y) ==
    /\ ~Active
    /\ calls < MaxCalls
    /\ calls' = calls + 1
    /\ prev' = Summary
    /\ op' = "split"
    /\ pc' = IF y = "None" THEN "failed" ELSE "created"
    /\ labels' = NoLabels
    /\ clust_labels' = <<>>
    /\ pos' = 0
    /\ yielded' = <<>>
    /\ err' = IF y = "None" THEN "TypeError" ELSE "none"
    /\ ret' = NoRet
    /\ refit' = FALSE
    /\ self' = SelfAfterCall
    /\ UNCHANGED <<n, clustererVars, fits>>

\* lococv.split(X, y): creates the generator; no code of the body runs.
Split(y) ==
    /\ ~Active
    /\ calls < MaxCalls
    /\ calls' = calls + 1
    /\ prev' = Summary
    /\ op' = "split"
    /\ pc' = "created"
    /\ labels' = NoLabels
    /\ clust_labels' = <<>>
    /\ pos' = 0
    /\ yielded' = <<>>
    /\ err' = "none"
    /\ ret' = NoRet
    /\ refit' = FALSE
    /\ self' = SelfAfterCall
    /\ UNCHANGED <<n, clustererVars, fits>>

\* First next() on the generator: _iter_test_masks up to its first yield.
StartIteration ==
    /\ pc = "created"
    /\ \E r \in FitResults :
        /\ lastFit' = r
        /\ dirty' = FALSE
        /\ refit' = Repeats
        /\ fits' = fits + FitCalls(r)
        /\ IF r.st = "error"
           THEN /\ pc' = "failed"
                /\ err' = FitFailure
                /\ UNCHANGED <<labels, clust_labels, pos, yielded>>
           ELSE LET found == Unique(r.labels)
                IN  /\ labels' = r.labels
                    /\ clust_labels' = found
                    /\ IF TooFewClusters(found)
                       THEN /\ pc' = "failed"
                            /\ err' = "ValueError"
                            /\ UNCHANGED <<pos, yielded>>
                       ELSE /\ pc' = "running"
                            /\ pos' = 1
                            /\ yielded' = <<Partition(TestMask(r.labels, found[1]))>>
                            /\ err' = "none"
    /\ self' = SelfAfterCall
    /\ UNCHANGED <<n, random_state, op, ret, prev, calls>>

\* Variant: the loop yields again without moving to the next label.
ResumeIterationNoAdvance ==
    /\ pc = "running"
    /\ pc' = "running"
    /\ yielded' = Append(yielded, Partition(TestMask(labels, clust_labels[pos])))
    /\ self' = SelfAfterCall
    /\ UNCHANGED <<n, clustererVars, op, labels, clust_labels, pos, err, ret,
                   refit, prev, fits, calls>>

\* A later next(): the loop yields the next mask, or ends (StopIteration).
ResumeIteration ==
    /\ pc = "running"
    /\ IF HasNext
       THEN /\ pos' = pos + 1
            /\ yielded' = Append(yielded, Partition(TestMask(labels, clust_labels[pos + 1])))
            /\ pc' = "running"
       ELSE /\ pc' = "exhausted"
            /\ UNCHANGED <<pos, yielded>>
    /\ self' = SelfAfterCall
    /\ UNCHANGED <<n, clustererVars, op, labels, clust_labels, err, ret, refit,
                   prev, fits, calls>>

\* lococv.get_n_splits(X, y) when its fit_predict has the outcome r:
\* len(np.unique(self.clusterer.fit_predict(X)))
GetNSplitsFit(y, r) ==
    /\ ~Active
    /\ calls < MaxCalls
    /\ calls' = calls + 1
    /\ prev' = Summary
    /\ op' = "get_n_splits"
    /\ lastFit' = r
    /\ fits' = fits + FitCalls(r)
    /\ dirty' = FALSE
    /\ refit' = Repeats
    /\ LET outcome == NSplitsOutcome(r)
       IN  /\ err' = outcome.err
           /\ ret' = outcome.ret
    /\ pc' = "idle"
    /\ labels' = NoLabels
    /\ clust_labels' = <<>>
    /\ pos' = 0
    /\ yielded' = <<>>
    /\ self' = SelfAfterCall
    /\ UNCHANGED <<n, random_state>>

\* lococv.get_n_splits(X, y)
GetNSplits(y) == \E r \in FitResults : GetNSplitsFit(y, r)

Next ==
    \/ \E s \in Seeds \cup {None} : SetRandomState(s)
    \/ \E y \in Targets : Split(y)
    \/ StartIteration
    \/ ResumeIteration
    \/ \E y \in Targets : GetNSplits(y)

Spec == Init /\ [][Next]_vars

\* ------------------------------------------------------------- claims

\* The distinct labels of a label vector, as a set.
Distinct(v) == {v[i] : i \in DOMAIN v}

\* The rows a label vector gives label l.
Cluster(v, l) == {i \in DOMAIN v : v[i] = l}

\* The generator has fitted and passed the < 2 check: labels is the vector
\* its partitions come from.
Yielding == op = "split" /\ pc \in {"running", "exhausted"}

\* C1: every partition split(X) has yielded has train and test disjoint and
\* together covering all rows 0..n-1.
C1_TrainTestComplement ==
    \A j \in 1..Len(yielded) :
        /\ yielded[j].train \cap yielded[j].test = {}
        /\ yielded[j].train \cup yielded[j].test = Rows

\* C1 witness: a sequence over 3 or more rows has yielded a partition.
C1_Witness ==
    /\ n >= 3
    /\ Cardinality(Distinct(labels)) >= 2
    /\ pc = "running"
    /\ Len(yielded) >= 2

\* C2: the test sets of one split sequence are pairwise disjoint, and once the
\* sequence is exhausted their union is 0..n-1.
C2_TestSetsCoverOnce ==
    /\ \A j, k \in 1..Len(yielded) :
            j # k => yielded[j].test \cap yielded[k].test = {}
    /\ (op = "split" /\ pc = "exhausted") =>
            UNION {yielded[j].test : j \in 1..Len(yielded)} = Rows

\* C2 witness: an exhausted sequence of three partitions.
C2_Witness ==
    /\ op = "split"
    /\ pc = "exhausted"
    /\ Len(yielded) = 3

\* C3: every yielded partition is (rows not labelled l, rows labelled l) for a
\* label l of the fitted vector, and in an exhausted sequence every distinct
\* label is the label of exactly one partition.
C3_OnePartitionPerCluster ==
    /\ Yielding =>
            \A j \in 1..Len(yielded) :
                \E l \in Distinct(labels) :
                    /\ yielded[j].test = Cluster(labels, l)
                    /\ yielded[j].train = Rows \ Cluster(labels, l)
    /\ (op = "split" /\ pc = "exhausted") =>
            \A l \in Distinct(labels) :
                Cardinality({j \in 1..Len(yielded) :
                                yielded[j].test = Cluster(labels, l)}) = 1

\* C3 witness: three clusters over at least three rows, all yielded.
C3_Witness ==
    /\ op = "split"
    /\ pc = "exhausted"
    /\ Cardinality(Distinct(labels)) = 3
    /\ Len(yielded) = 3

\* C4: when the fit returns fewer than 2 distinct labels the sequence fails
\* with ValueError at its first request and has yielded nothing; a failed
\* sequence never holds a partition.
C4_FailsBeforeFirstPartition ==
    /\ (op = "split" /\ pc \in {"running", "exhausted", "failed"}
            /\ lastFit.st = "ok" /\ Cardinality(Distinct(lastFit.labels)) < 2) =>
            (pc = "failed" /\ err = "ValueError" /\ yielded = <<>>)
    /\ pc = "failed" => yielded = <<>>

\* C4 witness: a fit over two or more rows gave one label and split failed.
C4_Witness ==
    /\ op = "split"
    /\ n >= 2
    /\ lastFit.st = "ok"
    /\ Cardinality(Distinct(lastFit.labels)) = 1
    /\ pc = "failed"
    /\ err = "ValueError"

\* C5: an exhausted split sequence holds as many partitions as the fitted
\* label vector has distinct labels.
C5_CountEqualsDistinctLabels ==
    (op = "split" /\ pc = "exhausted") =>
        Len(yielded) = Cardinality(Distinct(labels))

\* C5 witness: an exhausted sequence whose vector has two distinct labels
\* over three rows.
C5_Witness ==
    /\ op = "split"
    /\ pc = "exhausted"
    /\ n = 3
    /\ Cardinality(Distinct(labels)) = 2

\* The most recent call is a split whose sequence has ended (exhausted or
\* failed) and whose fit repeated, under an unchanged seeded configuration,
\* the fit of the call just before it.
EndedAfterSameFit(before) ==
    /\ op = "split"
    /\ pc \in {"exhausted", "failed"}
    /\ refit
    /\ prev.op = before

\* C6 as stated: whenever get_n_splits returned a value and a split under the
\* same deterministic fit follows immediately, the ended sequence has that
\* many partitions.
C6_AsStated ==
    (EndedAfterSameFit("get_n_splits") /\ prev.err = "none") =>
        Len(yielded) = prev.ret

\* C6 amended: the lengths agree when get_n_splits returned 2 or more; when it
\* returned less, the split that follows fails with ValueError and yields
\* nothing.
C6_CountAgreement ==
    (EndedAfterSameFit("get_n_splits") /\ prev.err = "none") =>
        IF prev.ret >= 2
        THEN pc = "exhausted" /\ Len(yielded) = prev.ret
        ELSE pc = "failed" /\ err = "ValueError" /\ yielded = <<>>

\* C6 witness: get_n_splits returned 3 and the split after it is exhausted.
C6_Witness ==
    /\ EndedAfterSameFit("get_n_splits")
    /\ prev.ret = 3
    /\ pc = "exhausted"

\* C7: get_n_splits never raises ValueError: when its fit returns a label
\* vector it returns the number of distinct labels, 1 included; and a split
\* that fails with ValueError on the same fit follows a get_n_splits that
\* returned 1.
C7_GetNSplitsNeverValidates ==
    /\ op = "get_n_splits" =>
            /\ err # "ValueError"
            /\ lastFit.st = "ok" =>
                    (err = "none" /\ ret = Cardinality(Distinct(lastFit.labels)))
    /\ (EndedAfterSameFit("get_n_splits") /\ err = "ValueError") =>
            (prev.err = "none" /\ prev.ret = 1)

\* C7 witness: get_n_splits returned 1 over two or more rows, and the split
\* on the same labels failed.
C7_Witness ==
    /\ EndedAfterSameFit("get_n_splits")
    /\ n >= 2
    /\ prev.ret = 1
    /\ prev.err = "none"
    /\ err = "ValueError"

\* C8: a split whose fit repeats the fit of the split before it (seeded,
\* configuration unchanged in between) yields the same partitions in the same
\* order and ends the same way.
C8_SameFoldsWhenSeeded ==
    /\ (op = "split" /\ pc = "running" /\ refit /\ prev.op = "split") =>
            /\ Len(yielded) <= Len(prev.seq)
            /\ yielded = SubSeq(prev.seq, 1, Len(yielded))
    /\ EndedAfterSameFit("split") =>
            (yielded = prev.seq /\ err = prev.err)

\* C8 witness: two consecutive exhausted splits of three partitions each under
\* one seed.
C8_Witness ==
    /\ EndedAfterSameFit("split")
    /\ random_state # None
    /\ pc = "exhausted"
    /\ Len(prev.seq) = 3

\* C9: with an unseeded clusterer nothing is frozen: when a split sequence has
\* been created after a split that yielded partitions, its first request can
\* yield a first partition other than that of the previous sequence; and
\* when it has been created after a get_n_splits that returned a count, its
\* fit can produce another number of distinct labels (two rows or more).
C9_NoFreezing ==
    (pc = "created" /\ random_state = None /\ n >= 2) =>
        /\ (prev.op = "split" /\ prev.seq # <<>>) =>
                ENABLED (StartIteration /\ pc' = "running"
                            /\ yielded'[1] # prev.seq[1])
        /\ (prev.op = "get_n_splits" /\ prev.err = "none") =>
                ENABLED (StartIteration /\ err' # "FitError"
                            /\ Len(clust_labels') # prev.ret)

\* C9 witness: two consecutive exhausted split sequences, unseeded, that
\* differ.
C9_Witness ==
    /\ op = "split"
    /\ pc = "exhausted"
    /\ random_state = None
    /\ ~refit
    /\ prev.op = "split"
    /\ prev.err = "none"
    /\ prev.seq # yielded

\* C9, second case: get_n_splits returned a count and the exhausted split
\* after it has another number of partitions.
C9_WitnessCount ==
    /\ op = "split"
    /\ pc = "exhausted"
    /\ random_state = None
    /\ prev.op = "get_n_splits"
    /\ prev.err = "none"
    /\ prev.ret >= 2
    /\ prev.ret # Len(yielded)

\* C10: a label on exactly one row i, with 2 or more distinct labels, raises
\* nothing, and the exhausted sequence holds the partition with test = {i}
\* and train = all other rows.
C10_SingletonCluster ==
    (op = "split" /\ pc \in {"running", "exhausted", "failed"} /\ lastFit.st = "ok") =>
        \A i \in Rows :
            (/\ Cardinality(Distinct(lastFit.labels)) >= 2
             /\ Cluster(lastFit.labels, lastFit.labels[i]) = {i}) =>
                /\ pc # "failed"
                /\ err = "none"
                /\ pc = "exhausted" =>
                        \E j \in 1..Len(yielded) :
                            /\ yielded[j].test = {i}
                            /\ yielded[j].train = Rows \ {i}
                            /\ Cardinality(yielded[j].train) = n - 1

\* C10 witness: labels (1, 3, 3) over three rows; the exhausted sequence is
\* (train {1, 2}, test {0}), (train {0}, test {1, 2}).
C10_Witness ==
    /\ op = "split"
    /\ pc = "exhausted"
    /\ n = 3
    /\ labels = [i \in 0..2 |-> IF i = 0 THEN 1 ELSE 3]
    /\ yielded = << [train |-> {1, 2}, test |-> {0}],
                    [train |-> {0}, test |-> {1, 2}] >>

\* The first row a label vector gives label l.
FirstRow(v, l) == CHOOSE i \in Cluster(v, l) : \A k \in Cluster(v, l) : i <= k

\* The label whose cluster is the test set of the j-th yielded partition.
LabelOf(j) == CHOOSE l \in Distinct(labels) : yielded[j].test = Cluster(labels, l)

\* C11 as stated: partitions come in first-occurrence order of their labels:
\* an earlier partition's label first occurs on an earlier row.
C11_AsStated ==
    Yielding =>
        \A j, k \in 1..Len(yielded) :
            j < k => FirstRow(labels, LabelOf(j)) < FirstRow(labels, LabelOf(k))

\* C11 amended: an earlier partition's label is the smaller label value,
\* whichever of the two labels occurs first in the vector.
C11_OrderByLabelValue ==
    Yielding =>
        \A j, k \in 1..Len(yielded) :
            j < k => LabelOf(j) < LabelOf(k)

\* C11 witness: the larger label occurs first in the vector, and both
\* partitions have been yielded.
C11_Witness ==
    /\ Yielding
    /\ Len(yielded) >= 2
    /\ FirstRow(labels, LabelOf(1)) > FirstRow(labels, LabelOf(2))

\* The distinct labels of v smaller than l.
Below(v, l) == {m \in Distinct(v) : m < l}

\* C12: the j-th yielded partition is the cluster of the j-th smallest
\* distinct label value, wherever the labels first occur.
C12_AscendingLabelOrder ==
    Yielding =>
        \A j \in 1..Len(yielded) :
            \E l \in Distinct(labels) :
                /\ Cardinality(Below(labels, l)) = j - 1
                /\ yielded[j].test = Cluster(labels, l)

\* C12 witness: labels (5, 3, 1): first occurrences in descending order of
\* value, partitions yielded for 1, 3, 5.
C12_Witness ==
    /\ op = "split"
    /\ pc = "exhausted"
    /\ n = 3
    /\ labels = [i \in 0..2 |-> 5 - 2 * i]
    /\ yielded = << [train |-> {0, 1}, test |-> {2}],
                    [train |-> {0, 2}, test |-> {1}],
                    [train |-> {1, 2}, test |-> {0}] >>

\* C13: fit_predict has been invoked once for every get_n_splits call and
\* once for every split sequence whose first partition has been requested,
\* whether the call succeeded or failed: after c such calls, c fits.
C13_OneFitPerCall ==
    /\ fits = calls - (IF pc = "created" THEN 1 ELSE 0)
    /\ (calls > 0 /\ pc # "created") => lastFit # NoFit

\* C13 witness: two calls, the second a split that failed for too few
\* clusters, and two fits.
C13_Witness ==
    /\ calls = 2
    /\ fits = 2
    /\ op = "split"
    /\ pc = "failed"
    /\ err = "ValueError"

\* A step of split or get_n_splits (not a change of the seed by the caller).
SplitterStep == calls' # calls \/ fits' # fits \/ pc' # pc \/ yielded' # yielded

\* C14: no step changes the splitter's fields, which stay the one reference
\* to the clusterer it was built with, and no step of split or get_n_splits
\* changes the clusterer's random_state.
C14_SplitterStateUnchanged ==
    [][/\ self' = self
       /\ DOMAIN self' = {"clusterer"}
       /\ self'.clusterer = "kmeans"
       /\ SplitterStep => random_state' = random_state]_vars

\* C14 witness: after a get_n_splits call and a failed split the splitter
\* still holds the clusterer it was built with.
C14_Witness ==
    /\ calls = 2
    /\ prev.op = "get_n_splits"
    /\ op = "split"
    /\ pc = "failed"
    /\ self = [clusterer |-> "kmeans"]

\* C15: the target vector does not influence split or get_n_splits: every
\* step that begins a split call, and every step that is a get_n_splits
\* call, is the step that call takes with each target vector (None
\* included), so the state, the fit and all partitions that follow are the
\* same.
C15_TargetIgnored ==
    [][/\ (calls' # calls /\ op' = "split") => (\A y \in Targets : Split(y))
       /\ (calls' # calls /\ op' = "get_n_splits") =>
                (\E r \in {lastFit'} : \A y \in Targets : GetNSplitsFit(y, r))]_vars

\* C15 witness: a get_n_splits call and an exhausted split sequence have
\* both run with some target vector.
C15_Witness ==
    /\ calls = 2
    /\ prev.op = "get_n_splits"
    /\ prev.ret >= 2
    /\ op = "split"
    /\ pc = "exhausted"
    /\ Len(yielded) = prev.ret

\* C16: when fit_predict raises, split fails with that exception, not
\* ValueError, holding no partition and no labels; get_n_splits raises it and
\* returns nothing; the failed generator takes no further step and the fit
\* has been invoked once for the call.
C16_FitFailurePropagates ==
    /\ (op = "split" /\ pc # "created" /\ lastFit.st = "error") =>
            /\ pc = "failed"
            /\ err = "FitError"
            /\ yielded = <<>>
            /\ labels = NoLabels
            /\ fits = calls
    /\ (op = "get_n_splits" /\ lastFit.st = "error") =>
            /\ err = "FitError"
            /\ ret = NoRet
            /\ fits = calls
    /\ pc = "failed" => (~ENABLED StartIteration /\ ~ENABLED ResumeIteration)

\* C16 witness: under one seed the fit raised in get_n_splits and again in
\* the split sequence after it.
C16_Witness ==
    /\ op = "split"
    /\ pc = "failed"
    /\ err = "FitError"
    /\ lastFit.st = "error"
    /\ prev.op = "get_n_splits"
    /\ prev.err = "FitError"
    /\ fits = 2

\* The consumer of a split sequence keeps requesting partitions until the
\* sequence ends (cross_val_predict iterates the whole of cv.split).
FairSpec == Spec /\ WF_vars(ResumeIteration)

\* Number of clusters the running loop has still to yield.
Remaining == Len(clust_labels) - pos

\* C17: once the fit of a split sequence has returned, the sequence ends: it
\* has failed holding nothing, or it is running with a next step that either
\* yields one of the finitely many remaining clusters or ends it, and it
\* reaches exhaustion; exhausted, it holds exactly k partitions with
\* 2 <= k <= n; no step of a running sequence invokes the clusterer.
C17_SequenceEnds ==
    /\ [](pc = "failed" => yielded = <<>>)
    /\ []((op = "split" /\ pc = "running") =>
            /\ Len(yielded) = pos
            /\ Remaining >= 0
            /\ ENABLED ResumeIteration)
    /\ []((op = "split" /\ pc = "exhausted") =>
            /\ Len(yielded) = Cardinality(Distinct(labels))
            /\ 2 <= Len(yielded)
            /\ Len(yielded) <= n)
    /\ [][pc = "running" =>
            /\ fits' = fits
            /\ lastFit' = lastFit
            /\ pc' \in {"running", "exhausted"}
            /\ (yielded' # yielded) => Remaining' < Remaining]_vars
    /\ (pc = "running") ~> (pc = "exhausted")

\* C17 witness: a sequence over three rows is exhausted after three
\* partitions and one fit.
C17_Witness ==
    /\ op = "split"
    /\ pc = "exhausted"
    /\ n = 3
    /\ Len(yielded) = 3
    /\ fits = 1

\* C18: creating a split sequence invokes no fit and raises nothing; the
\* label vector bound at the first request is the one every partition of the
\* sequence is cut from, whatever the clusterer's kind and whatever the
\* caller does to its seed while the sequence is consumed.
C18_LazySnapshot ==
    /\ [](pc = "created" =>
            /\ yielded = <<>>
            /\ err = "none"
            /\ labels = NoLabels
            /\ fits = calls - 1)
    /\ [][(\E y \in Targets : Split(y)) =>
            (fits' = fits /\ lastFit' = lastFit /\ pc' = "created")]_vars
    /\ [][pc = "running" =>
            (labels' = labels /\ clust_labels' = clust_labels)]_vars
    /\ [](Yielding =>
            \A j \in 1..Len(yielded) :
                /\ yielded[j].test = Cluster(labels, clust_labels[j])
                /\ yielded[j].train = Rows \ yielded[j].test)
    /\ []((op = "split" /\ pc = "exhausted") =>
            UNION {yielded[j].test : j \in 1..Len(yielded)} = Rows)

\* C18 witness: the seed was changed after the fit of a running sequence of
\* three clusters, two of them yielded and one still to come.
C18_Witness ==
    /\ op = "split"
    /\ pc = "running"
    /\ dirty
    /\ Len(clust_labels) = 3
    /\ Len(yielded) = 2

RECURSIVE SumTestSizes(_)
SumTestSizes(seq) ==
    IF seq = <<>> THEN 0
    ELSE Cardinality(Head(seq).test) + SumTestSizes(Tail(seq))

\* C19: both sides of every yielded partition are non-empty,
\* 1 <= |test| <= n-1 and |train| = n - |test|, and the test-set sizes of an
\* exhausted sequence sum to n.
C19_BothSidesNonEmpty ==
    /\ \A j \in 1..Len(yielded) :
            /\ 1 <= Cardinality(yielded[j].test)
            /\ Cardinality(yielded[j].test) <= n - 1
            /\ Cardinality(yielded[j].train) = n - Cardinality(yielded[j].test)
            /\ yielded[j].train # {}
    /\ (op = "split" /\ pc = "exhausted") => SumTestSizes(yielded) = n

\* C19 witness: an exhausted sequence over three rows with test sets of
\* sizes 2 and 1.
C19_Witness ==
    /\ op = "split"
    /\ pc = "exhausted"
    /\ n = 3
    /\ Len(yielded) = 2
    /\ Cardinality(yielded[1].test) = 2
    /\ Cardinality(yielded[2].test) = 1

====
